---- MODULE Spec2Model ----
(***************************************************************************)
(* Brainion-Backend: the hybrid search endpoints.                          *)
(*                                                                         *)
(* Two revisions of the search controller are part of the repository and   *)
(* both are modelled:                                                      *)
(*   - src/src/controllers/search.controller.ts (searchWithAI,             *)
(*     searchByTitle): tagged-template SQL, fixed LIMIT 3, 404 on empty;   *)
(*   - src/unnamed/part_012 lines 55-588 (searchWithAI_012,                *)
(*     searchByTitle_012 here): authentication check, sanitised query,     *)
(*     dynamically assembled SQL, limit parameter, empty list on 200.      *)
(*                                                                         *)
(* Text is a sequence of one-character strings.  Scores are integers in    *)
(* thousandths (0.6 is 600).  Embeddings are two-dimensional integer       *)
(* vectors of norm 10, so that cosine distance is exact in hundredths;     *)
(* the SQL NULL embedding is the empty tuple.  Timestamps are integer      *)
(* ticks, TicksPerDay of them to a calendar day.                           *)
(***************************************************************************)
EXTENDS Integers, Sequences, FiniteSets, TLC

VARIABLES
  store,    \* the rows of "Content"
  handler,  \* the handler that served the request, "none" before it
  req,      \* the request it served
  resp,     \* the response it sent
  calls,    \* the collaborators it invoked, in order, and whether each succeeded
  ctx,      \* what the collaborators returned to it: query embedding, parsed date
  inflight, \* the write request that is between two of its awaited statements
  last,     \* the last response of a write or listing handler
  cut,      \* a call of truncateText: its arguments and its result
  run,      \* a call of generateEmbedding: its provider calls and waits
  procs,    \* the requests, or runs of the quote job, that overlap in time
  quotes    \* the rows of "Quote"

vars ==
  <<store, handler, req, resp, calls, ctx, inflight, last, cut, run, procs,
    quotes>>

-----------------------------------------------------------------------------
(* Bounds of the model *)

\* largest number of rows of "Content" in a store the searches run against
MaxStore == 4

\* largest number of rows in a store the write handlers start from, and the
\* largest store they grow
MaxInitial == 1
MaxGrown == 2

\* NOW() of the rows the write handlers insert
Now == 4

\* longest text given to truncateText, in characters, and the largest byte
\* budget
MaxTextLen == 7
MaxBudget == 6

\* the number of requests, or runs of the quote job, that overlap in time
MaxProcs == 2

\* ticks per calendar day (timestamps finer than the ::date cast)
TicksPerDay == 2

-----------------------------------------------------------------------------
(* JavaScript values of a request body *)

Undefined == [t |-> "undefined"]
Str(s) == [t |-> "string", v |-> s]
Num(n) == [t |-> "number", v |-> n]
Bool(b) == [t |-> "boolean", v |-> b]

\* SQL NULL for a numeric column (outside the range of every score)
NULL == -1000000

\* chrono.parseDate found no date / SQL NULL for ${parsedDate}
NoDate == -1

-----------------------------------------------------------------------------
(* Text *)

Lower(c) ==
  CASE c = "A" -> "a"
    [] c = "B" -> "b"
    [] c = "C" -> "c"
    [] c = "X" -> "x"
    [] OTHER -> c

RECURSIVE LowerAll(_)
LowerAll(s) == IF s = <<>> THEN <<>> ELSE <<Lower(Head(s))>> \o LowerAll(Tail(s))

\* String.prototype.trim (the only white space of the alphabet is " ")
RECURSIVE TrimLeft(_)
TrimLeft(s) == IF s # <<>> /\ Head(s) = " " THEN TrimLeft(Tail(s)) ELSE s

RECURSIVE TrimRight(_)
TrimRight(s) ==
  IF s # <<>> /\ s[Len(s)] = " " THEN TrimRight(SubSeq(s, 1, Len(s) - 1)) ELSE s

Trim(s) == TrimRight(TrimLeft(s))

\* PostgreSQL `s LIKE p` (no backslash in the alphabet, so no escapes):
\* % matches any run of characters, _ any one character.
RECURSIVE Like(_, _)
Like(s, p) ==
  IF p = <<>> THEN s = <<>>
  ELSE IF Head(p) = "%" THEN Like(s, Tail(p)) \/ (s # <<>> /\ Like(Tail(s), p))
  ELSE IF s = <<>> THEN FALSE
  ELSE (Head(p) = "_" \/ Head(s) = Head(p)) /\ Like(Tail(s), Tail(p))

\* PostgreSQL `s ILIKE p`
ILike(s, p) == Like(LowerAll(s), LowerAll(p))

\* SQL: title ILIKE '%' || query || '%'   (title is a NOT NULL text here)
TitleILike(text, query) == ILike(text, <<"%">> \o query \o <<"%">>)

\* q occurs in s as a substring, compared without regard to case
ContainsCI(s, q) ==
  \E i \in 1..(Len(s) + 1) :
    /\ i + Len(q) - 1 <= Len(s)
    /\ LowerAll(SubSeq(s, i, i + Len(q) - 1)) = LowerAll(q)

-----------------------------------------------------------------------------
(* The Content Store: rows of the "Content" table *)

\* User.id values (generated ids: no surrounding white space)
Users == {<<"u">>, <<"v">>}

Row(id, userId, type, title, content, createdAt, embedding) ==
  [id |-> id, userId |-> userId, type |-> type, title |-> title,
   content |-> content, createdAt |-> createdAt, embedding |-> embedding]

\* The rows the stores of the model are made of.  A LINK row may lack its
\* embedding (createLink of part_010 inserts the row first and adds the
\* embedding with a second statement whose failure it only logs).
Catalogue ==
  { Row(1, <<"u">>, "NOTE", <<"A", "b">>, <<"x">>, 0, <<10, 0>>),
    Row(2, <<"u">>, "NOTE", <<"c">>, <<"a">>, 1, <<0, 10>>),
    Row(3, <<"u">>, "LINK", <<"A", "b">>, <<>>, 2, <<>>),
    Row(4, <<"u">>, "NOTE", <<"c">>, <<"x">>, 3, <<6, 8>>),
    Row(5, <<"u">>, "NOTE", <<"c">>, <<"x">>, 0, <<6, 8>>),
    Row(6, <<"u">>, "NOTE", <<"c">>, <<"x">>, 1, <<-6, 8>>),
    Row(7, <<"v">>, "NOTE", <<"A", "b">>, <<"a">>, 0, <<10, 0>>) }

Stores == {S \in SUBSET Catalogue : Cardinality(S) <= MaxStore}

ItemById(id) == CHOOSE it \in Catalogue : it.id = id

\* "createdAt"::date, ${parsedDate}::date, toISOString().split('T')[0]
DateOf(ts) == ts \div TicksPerDay

-----------------------------------------------------------------------------
(* pgvector: embedding <=> query, the cosine distance, in hundredths *)

Dot(a, b) == a[1] * b[1] + a[2] * b[2]

Norm(a) == CHOOSE n \in 0..20 : n * n = Dot(a, a)

CosineDistance(a, b) == 100 - (100 * Dot(a, b)) \div (Norm(a) * Norm(b))

-----------------------------------------------------------------------------
(* The columns and the WHERE clause of the hybrid query *)

\* 0.6 * (1 - (embedding <=> q)); NULL when the embedding is NULL
WeightedSimilarity(item, queryEmbedding) ==
  IF item.embedding = <<>> THEN NULL
  ELSE 6 * (100 - CosineDistance(item.embedding, queryEmbedding))

\* 0.3 * (CASE WHEN title ILIKE '%' || q || '%' THEN 1 ELSE 0 END)
WeightedTitle(item, query) ==
  300 * (IF TitleILike(item.title, query) THEN 1 ELSE 0)

\* ${parsedDate}::date IS NOT NULL AND "createdAt"::date = ${parsedDate}::date
DateMatches(item, parsedDate) ==
  parsedDate # NoDate /\ DateOf(item.createdAt) = DateOf(parsedDate)

\* 0.1 * (CASE WHEN <date matches> THEN 1 ELSE 0 END)
WeightedDate(item, parsedDate) ==
  100 * (IF DateMatches(item, parsedDate) THEN 1 ELSE 0)

\* the sum of the three; NULL + x is NULL
TotalScore(item, query, queryEmbedding, parsedDate) ==
  IF WeightedSimilarity(item, queryEmbedding) = NULL THEN NULL
  ELSE WeightedSimilarity(item, queryEmbedding) + WeightedTitle(item, query)
       + WeightedDate(item, parsedDate)

ScoredRow(item, query, queryEmbedding, parsedDate) ==
  [id |-> item.id,
   weighted_similarity |-> WeightedSimilarity(item, queryEmbedding),
   weighted_title |-> WeightedTitle(item, query),
   weighted_date |-> WeightedDate(item, parsedDate),
   total_score |-> TotalScore(item, query, queryEmbedding, parsedDate)]

\* NULL > t is unknown, and unknown OR p is p
SimilarityAbove(item, queryEmbedding, threshold) ==
  /\ WeightedSimilarity(item, queryEmbedding) # NULL
  /\ WeightedSimilarity(item, queryEmbedding) > threshold

\* the WHERE clause without its owner condition
WhereHybrid_AnyOwner(item, userId, query, queryEmbedding, parsedDate, threshold) ==
  \/ SimilarityAbove(item, queryEmbedding, threshold)
  \/ TitleILike(item.title, query)
  \/ DateMatches(item, parsedDate)

\* WHERE "userId" = ${userId} AND (<similarity> OR <title> OR <date>)
WhereHybrid(item, userId, query, queryEmbedding, parsedDate, threshold) ==
  /\ item.userId = userId
  /\ \/ SimilarityAbove(item, queryEmbedding, threshold)
     \/ TitleILike(item.title, query)
     \/ DateMatches(item, parsedDate)

\* part_012: the same with OR content ILIKE '%' || q || '%'; the date
\* disjunct is only present when a date was parsed
WhereHybridDyn(item, userId, query, queryEmbedding, parsedDate, threshold) ==
  /\ item.userId = userId
  /\ \/ SimilarityAbove(item, queryEmbedding, threshold)
     \/ TitleILike(item.title, query)
     \/ TitleILike(item.content, query)
     \/ DateMatches(item, parsedDate)

-----------------------------------------------------------------------------
(* ORDER BY ... LIMIT n *)

\* Every descending order of the rows of S by key[row] the sort may return:
\* rows with equal keys come out in an order SQL leaves unspecified.
RECURSIVE Orderings(_, _)
Orderings(S, key) ==
  IF S = {} THEN {<<>>}
  ELSE UNION { { <<m>> \o rest : rest \in Orderings(S \ {m}, key) } :
               m \in {x \in S : \A y \in S : key[y] <= key[x]} }

\* ORDER BY total_score DESC: PostgreSQL puts NULLs first under DESC
ScoreKey(row) == IF row.total_score = NULL THEN -NULL ELSE row.total_score

OrderByTotalScoreDesc(rows) == Orderings(rows, [r \in rows |-> ScoreKey(r)])

\* a LIMIT that lets one more row through
Take_OneMore(s, n) == IF Len(s) <= n + 1 THEN s ELSE SubSeq(s, 1, n + 1)

\* LIMIT n
Take(s, n) == IF Len(s) <= n THEN s ELSE SubSeq(s, 1, n)

Min(a, b) == IF a <= b THEN a ELSE b
Max(a, b) == IF a >= b THEN a ELSE b

-----------------------------------------------------------------------------
(* Requests and the outcomes of the external collaborators *)

HybridLimit == 3
TitleTake == 5
DefaultThreshold == 300
DefaultLimitDyn == 5
MaxLimitDyn == 20
MinThresholdDyn == 100
MaxThresholdDyn == 1000
DefaultTitleLimitDyn == 10
MaxTitleLimitDyn == 50
MaxQueryLength == 1000

QueryValues ==
  { Undefined, Num(7), Str(<<>>), Str(<<" ">>),
    Str(<<"a">>), Str(<<"_">>), Str(<<"%">>) }

UserIdValues ==
  { Undefined, Num(7), Str(<<>>), Str(<<" ">>), Str(<<"u">>), Str(<<"v">>) }

ThresholdValues == { Undefined, Num(0), Num(50), Num(900) }

UseAIValues == { Bool(TRUE), Bool(FALSE) }

LimitValues == { Undefined, Num(2), Num(25) }

Request(query, userId, threshold, useAI, limit, authenticated) ==
  [query |-> query, userId |-> userId, similarityThreshold |-> threshold,
   useAI |-> useAI, limit |-> limit, authenticated |-> authenticated]

IsText(v) == v.t = "string" /\ Trim(v.v) # <<>>

\* Request bodies: every combination of well-formed fields, every
\* malformed query or user id with every value of the other of the two, a
\* threshold above 1, and a query that ends in a character
\* sanitizeSearchQuery removes.
Requests ==
  { Request(q, u, t, ai, l, TRUE) :
      q \in {x \in QueryValues : IsText(x)}, u \in {x \in UserIdValues : IsText(x)},
      t \in ThresholdValues, ai \in UseAIValues, l \in LimitValues }
  \cup
  { Request(qu[1], qu[2], Undefined, Bool(TRUE), Undefined, TRUE) :
      qu \in {x \in QueryValues \X UserIdValues : ~IsText(x[1]) \/ ~IsText(x[2])} }
  \cup
  { Request(Str(<<"a">>), Str(<<"u">>), Num(1500), Bool(TRUE), Undefined, TRUE),
    Request(Str(<<"a", "%">>), Str(<<"u">>), Undefined, Bool(TRUE), Undefined, TRUE) }

\* the same bodies sent without a session (req.isAuthenticated() is false)
Unauthenticated(r) == [r EXCEPT !.authenticated = FALSE]

\* model.embedContent: it throws, or it returns the values of the embedding
ProviderOutcomes ==
  { [ok |-> FALSE, values |-> <<>>],
    [ok |-> TRUE, values |-> <<10, 0>>],
    [ok |-> TRUE, values |-> <<6, 8>>] }

\* chrono.parseDate: it throws, finds no date, or returns a timestamp
ParserOutcomes ==
  { [ok |-> FALSE, date |-> NoDate],
    [ok |-> TRUE, date |-> NoDate],
    [ok |-> TRUE, date |-> 1] }

\* model.generateContent: an answer, a response without candidate text, a throw
SynthesizerOutcomes == { "text", "empty", "throws" }

Call(who, ok) == [who |-> who, ok |-> ok]

\* JavaScript: !v
Falsy(v) ==
  \/ v.t = "undefined"
  \/ (v.t = "string" /\ v.v = <<>>)
  \/ (v.t = "number" /\ v.v = 0)
  \/ (v.t = "boolean" /\ ~v.v)

-----------------------------------------------------------------------------
(* embedding.service.ts *)

\* generateEmbedding(text): the argument is checked before the provider is
\* called; the texts of the model are far below the 9000-byte budget of
\* truncateText, which returns them unchanged.  calls: the provider call,
\* when one is made, then the outcome of generateEmbedding itself.
generateEmbedding(text, outcome) ==
  IF text = <<>> \/ Trim(text) = <<>>
  THEN [ok |-> FALSE, values |-> <<>>,
        calls |-> <<Call("generateEmbedding", FALSE)>>]
  ELSE IF ~outcome.ok \/ outcome.values = <<>>
  THEN [ok |-> FALSE, values |-> <<>>,
        calls |-> <<Call("provider", FALSE), Call("generateEmbedding", FALSE)>>]
  ELSE [ok |-> TRUE, values |-> outcome.values,
        calls |-> <<Call("provider", TRUE), Call("generateEmbedding", TRUE)>>]

-----------------------------------------------------------------------------
(* search.controller.ts *)

\* the validation without the trim().length === 0 checks
validateSearchInput_NoTrim(body) ==
  IF Falsy(body.query) \/ body.query.t # "string"
     \/ Falsy(body.userId) \/ body.userId.t # "string"
  THEN [isValid |-> FALSE, query |-> <<>>, userId |-> <<>>,
        similarityThreshold |-> 0, useAI |-> FALSE]
  ELSE [isValid |-> TRUE, query |-> Trim(body.query.v),
        userId |-> Trim(body.userId.v),
        similarityThreshold |-> DefaultThreshold, useAI |-> TRUE]

\* the validation with useAI read as true whatever the body says
validateSearchInput_AlwaysAI(body) ==
  IF validateSearchInput_NoTrim(body).isValid /\ Trim(body.query.v) # <<>>
     /\ Trim(body.userId.v) # <<>>
  THEN [isValid |-> TRUE, query |-> Trim(body.query.v),
        userId |-> Trim(body.userId.v),
        similarityThreshold |-> DefaultThreshold, useAI |-> TRUE]
  ELSE [isValid |-> FALSE, query |-> <<>>, userId |-> <<>>,
        similarityThreshold |-> 0, useAI |-> FALSE]

validateSearchInput(body) ==
  LET similarityThreshold ==
        IF body.similarityThreshold.t = "undefined" THEN Num(DefaultThreshold)
        ELSE body.similarityThreshold
      useAI == IF body.useAI.t = "undefined" THEN Bool(TRUE) ELSE body.useAI
      invalid == [isValid |-> FALSE, query |-> <<>>, userId |-> <<>>,
                  similarityThreshold |-> 0, useAI |-> FALSE]
  IN IF Falsy(body.query) \/ body.query.t # "string" \/ Trim(body.query.v) = <<>>
     THEN invalid
     ELSE IF Falsy(body.userId) \/ body.userId.t # "string"
             \/ Trim(body.userId.v) = <<>>
     THEN invalid
     ELSE IF similarityThreshold.t # "number" \/ similarityThreshold.v < 0
             \/ similarityThreshold.v > 1000
     THEN invalid
     ELSE IF useAI.t # "boolean"
     THEN invalid
     ELSE [isValid |-> TRUE, query |-> Trim(body.query.v),
           userId |-> Trim(body.userId.v),
           similarityThreshold |-> similarityThreshold.v, useAI |-> useAI.v]

Reply(status) ==
  [status |-> status, results |-> <<>>, answer |-> "none", warning |-> FALSE]

ReplyResults(status, results, answer, warning) ==
  [status |-> status, results |-> results, answer |-> answer, warning |-> warning]

\* No request has been served yet.  The searches leave the store as it is,
\* so a request served after another reaches the states the same request
\* reaches when served first: a behaviour follows one request.
Idle == handler = "none"

\* relevantContent.slice(0, 8000); part_012: maxContentLength
MaxContext == 8000
MaxContext_012 == 4000

\* no prompt was built
NoPrompt == [row |-> 0, context |-> <<>>, marked |-> FALSE, question |-> <<>>]

\* the prompt of model.generateContent: the row whose content is its
\* context, the content cut to max characters, whether "..." follows it, and
\* the question
Prompt(row, max, question) ==
  [row |-> row, context |-> Take(ItemById(row).content, max),
   marked |-> Len(ItemById(row).content) > max, question |-> question]

NoContext ==
  [queryEmbedding |-> <<>>, parsedDate |-> NoDate, prompt |-> NoPrompt]

Context(queryEmbedding, parsedDate) ==
  [queryEmbedding |-> queryEmbedding, parsedDate |-> parsedDate,
   prompt |-> NoPrompt]

\* a response that also keeps the search as a row of "Content"
Respond_Recording(h, body, r, c, x) ==
  /\ handler' = h
  /\ req' = body
  /\ resp' = r
  /\ calls' = c
  /\ ctx' = x
  /\ store' = store \cup {Row(0, <<>>, "SEARCH", <<>>, <<>>, 0, <<>>)}
  /\ UNCHANGED <<inflight, last, cut, run, procs, quotes>>

\* res.status(...).json(...): the handlers read the store ($queryRaw SELECT,
\* findMany) and write nothing
Respond(h, body, r, c, x) ==
  /\ handler' = h
  /\ req' = body
  /\ resp' = r
  /\ calls' = c
  /\ ctx' = x
  /\ UNCHANGED <<store, inflight, last, cut, run, procs, quotes>>

\* an embedding failure answered as an empty success
OnEmbeddingError_Empty200(h, body, c) ==
  Respond(h, body, ReplyResults(200, <<>>, "none", TRUE), c, NoContext)

\* catch (embeddingError): res.status(500).json(...); return
OnEmbeddingError(h, body, c) == Respond(h, body, Reply(500), c, NoContext)

\* part_012: catch (error) around generateEmbedding: res.status(500)
OnEmbeddingError_012(h, body, c) == Respond(h, body, Reply(500), c, NoContext)

\* a synthesizer failure answered as a failure of the request
OnAIError_Fatal(h, body, results, c, x) == Respond(h, body, Reply(500), c, x)

\* a synthesizer failure passed on to the handler's catch-all
OnAIError_012_Rethrown(h, body, results, c, x) == Respond(h, body, Reply(500), c, x)

\* catch (aiError): res.status(200).json({ answer: <fixed text>, listOfNotes:
\* results, warning })
OnAIError(h, body, results, c, x) ==
  Respond(h, body, ReplyResults(200, results, "fixed", TRUE), c, x)

\* part_012: catch (aiError): res.status(200).json({ results, warning })
OnAIError_012(h, body, results, c, x) ==
  Respond(h, body, ReplyResults(200, results, "none", TRUE), c, x)

\* the calls of the synthesis step: model.generateContent, then, when it
\* returned, the read of the first candidate's text (found or not)
SynthesisCalls(synthesized) ==
  IF synthesized = "throws" THEN <<Call("synthesizer", FALSE)>>
  ELSE <<Call("synthesizer", TRUE), Call("candidateText", synthesized = "text")>>

\* the rows the $queryRaw of searchWithAI selects, before ORDER BY and LIMIT
HybridRows(S, userId, query, queryEmbedding, parsedDate, threshold) ==
  { ScoredRow(it, query, queryEmbedding, parsedDate) :
      it \in {x \in S : WhereHybrid(x, userId, query, queryEmbedding,
                                    parsedDate, threshold)} }

\* ... ORDER BY total_score DESC LIMIT 3
HybridResults(S, userId, query, queryEmbedding, parsedDate, threshold) ==
  { Take(o, HybridLimit) :
      o \in OrderByTotalScoreDesc(
              HybridRows(S, userId, query, queryEmbedding, parsedDate, threshold)) }

\* search.controller.ts searchWithAI from `await model.generateContent` on:
\* the call settles with an answer, without candidate text, or with a throw
generateContent(body, results, c, x) ==
  \E synthesized \in SynthesizerOutcomes :
    LET c3 == c \o SynthesisCalls(synthesized) IN
    CASE synthesized = "text" ->
           Respond("searchWithAI", body,
                   ReplyResults(200, results, "ai", FALSE), c3, x)
      [] synthesized = "empty" ->
           Respond("searchWithAI", body,
                   ReplyResults(200, results, "fixed", FALSE), c3, x)
      [] OTHER -> OnAIError("searchWithAI", body, results, c3, x)

\* The handler suspended at `await model.generateContent(prompt)`: nothing
\* is sent yet (status 0), results holds the ranked rows, and answer tells
\* whether the provider will ever settle the call ("awaiting") or not
\* ("hangs").  No timer is started beside the call.
AwaitContent(body, results, c, x) ==
  \E settles \in BOOLEAN :
    Respond("searchWithAI", body,
            ReplyResults(0, results, IF settles THEN "awaiting" ELSE "hangs",
                         FALSE), c, x)

\* search.controller.ts searchWithAI: as one step up to its answer, or
\* (suspended) up to `await model.generateContent`
searchWithAI_handler(suspended) ==
  /\ Idle
  /\ \E body \in Requests :
    LET v == validateSearchInput(body) IN
    IF ~v.isValid
    THEN Respond("searchWithAI", body, Reply(400), <<>>, NoContext)
    ELSE
    \E embedded \in ProviderOutcomes :
      LET g == generateEmbedding(v.query, embedded) IN
      IF ~g.ok THEN OnEmbeddingError("searchWithAI", body, g.calls)
      ELSE
      \E parsed \in ParserOutcomes :
        \* try { parsedDate = chrono.parseDate(query) } catch { warn }
        LET parsedDate == IF parsed.ok THEN parsed.date ELSE NoDate
            x == Context(g.values, parsedDate)
            c2 == g.calls \o <<Call("parser", parsed.ok), Call("store", TRUE)>>
        IN
        \E results \in HybridResults(store, v.userId, v.query, g.values,
                                     parsedDate, v.similarityThreshold) :
          IF results = <<>>
          THEN Respond("searchWithAI", body, Reply(404), c2, x)
          ELSE IF ~v.useAI
          THEN Respond("searchWithAI", body,
                       ReplyResults(200, results, "none", FALSE), c2, x)
          ELSE IF Trim(ItemById(results[1].id).content) = <<>>
          THEN Respond("searchWithAI", body,
                       ReplyResults(200, results, "fixed", FALSE), c2, x)
          ELSE
          LET xp == [x EXCEPT !.prompt =
                       Prompt(results[1].id, MaxContext, v.query)]
          IN IF suspended THEN AwaitContent(body, results, c2, xp)
             ELSE generateContent(body, results, c2, xp)

searchWithAI == searchWithAI_handler(FALSE)

searchWithAI_await == searchWithAI_handler(TRUE)

\* the promise of model.generateContent settles and the handler resumes
searchWithAI_resume ==
  /\ handler = "searchWithAI"
  /\ resp.status = 0
  /\ resp.answer = "awaiting"
  /\ generateContent(req, resp.results, calls, ctx)

\* prisma.content.findMany({ where: { userId, title: { contains, mode:
\* 'insensitive' } }, orderBy: { createdAt: 'desc' }, take: 5 }); Prisma sends
\* the value between two % as the ILIKE pattern
TitleRows(S, userId, query) ==
  { [id |-> it.id] : it \in {x \in S : x.userId = userId /\ TitleILike(x.title, query)} }

OrderByCreatedAtDesc(rows) ==
  Orderings(rows, [r \in rows |-> ItemById(r.id).createdAt])

searchByTitle ==
  /\ Idle
  /\ \E body \in Requests :
    LET v == validateSearchInput(body) IN
    IF ~v.isValid
    THEN Respond("searchByTitle", body, Reply(400), <<>>, NoContext)
    ELSE
    \E o \in OrderByCreatedAtDesc(TitleRows(store, v.userId, v.query)) :
      LET results == Take(o, TitleTake) IN
      IF results = <<>>
      THEN Respond("searchByTitle", body, Reply(404),
                   <<Call("store", TRUE)>>, NoContext)
      ELSE Respond("searchByTitle", body,
                   ReplyResults(200, results, "none", FALSE),
                   <<Call("store", TRUE)>>, NoContext)

-----------------------------------------------------------------------------
(* part_012, lines 55-588: the revision with dynamically assembled SQL *)

validateSearchInput_012(query, userId) ==
  LET queryBad ==
        \/ Falsy(query) \/ query.t # "string"
        \/ Trim(query.v) = <<>>
        \/ Len(query.v) > MaxQueryLength
      userIdBad ==
        \/ Falsy(userId) \/ userId.t # "string"
        \/ Trim(userId.v) = <<>>
  IN ~queryBad /\ ~userIdBad

\* query.trim().replace(/[%;\\]/g, '').substring(0, 1000)
sanitizeSearchQuery(query) ==
  Take(SelectSeq(Trim(query), LAMBDA c : c \notin {"%", ";", "\\"}),
       MaxQueryLength)

\* Math.max(0.1, Math.min(1.0, parseFloat(similarityThreshold.toString()) || 0.3))
Threshold_012(similarityThreshold) ==
  LET given == IF similarityThreshold.t = "undefined" THEN DefaultThreshold
               ELSE similarityThreshold.v
      parsed == IF given = 0 THEN DefaultThreshold ELSE given
  IN Max(MinThresholdDyn, Min(MaxThresholdDyn, parsed))

\* Math.min(Math.max(1, parseInt(limit.toString()) || 5), 20)
SearchLimit_012(limit, default, cap) ==
  LET given == IF limit.t = "undefined" THEN default ELSE limit.v
      parsed == IF given = 0 THEN default ELSE given
  IN Min(Max(1, parsed), cap)

HybridRows_012(S, userId, query, queryEmbedding, threshold) ==
  { ScoredRow(it, query, queryEmbedding, NoDate) :
      it \in {x \in S : WhereHybridDyn(x, userId, query, queryEmbedding,
                                       NoDate, threshold)} }

HybridResults_012(S, userId, query, queryEmbedding, threshold, limit) ==
  { Take(o, limit) :
      o \in OrderByTotalScoreDesc(
              HybridRows_012(S, userId, query, queryEmbedding, threshold)) }

\* part_012 searchWithAI from `await model.generateContent` on
generateContent_012(body, results, c, x) ==
  \E synthesized \in SynthesizerOutcomes :
    LET c3 == c \o SynthesisCalls(synthesized) IN
    \* if (!aiResponse) throw new Error(...): an empty response takes
    \* the path of a throw
    IF synthesized = "text"
    THEN Respond("searchWithAI_012", body,
                 ReplyResults(200, results, "ai", FALSE), c3, x)
    ELSE OnAIError_012("searchWithAI_012", body, results, c3, x)

\* part_012 searchWithAI suspended at `await model.generateContent`
AwaitContent_012(body, results, c, x) ==
  \E settles \in BOOLEAN :
    Respond("searchWithAI_012", body,
            ReplyResults(0, results, IF settles THEN "awaiting" ELSE "hangs",
                         FALSE), c, x)

\* part_012 searchWithAI: as one step up to its answer, or (suspended) up
\* to `await model.generateContent`
searchWithAI_012_handler(suspended) ==
  /\ Idle
  /\ \E r \in Requests, authenticated \in BOOLEAN :
    LET body == IF authenticated THEN r ELSE Unauthenticated(r) IN
    IF ~body.authenticated
    THEN Respond("searchWithAI_012", body, Reply(401), <<>>, NoContext)
    ELSE IF ~validateSearchInput_012(body.query, body.userId)
    THEN Respond("searchWithAI_012", body, Reply(400), <<>>, NoContext)
    ELSE
    LET threshold == Threshold_012(body.similarityThreshold)
        searchLimit == SearchLimit_012(body.limit, DefaultLimitDyn, MaxLimitDyn)
        useAI == ~Falsy(body.useAI)
        sanitizedQuery == sanitizeSearchQuery(body.query.v)
    IN
    \E embedded \in ProviderOutcomes :
      LET g == generateEmbedding(sanitizedQuery, embedded) IN
      IF ~g.ok THEN OnEmbeddingError_012("searchWithAI_012", body, g.calls)
      ELSE
      \E parsed \in ParserOutcomes :
        LET c1 == g.calls \o <<Call("parser", parsed.ok)>> IN
        \* chrono.parseDate is called outside every inner try: a throw
        \* reaches the handler's catch-all
        IF ~parsed.ok
        THEN Respond("searchWithAI_012", body, Reply(500), c1,
                     Context(g.values, NoDate))
        \* the date (2025-01-15) is pasted bare into the CASE expressions:
        \* PostgreSQL rejects 15::date and the query fails as a known request
        \* error
        ELSE IF parsed.date # NoDate
        THEN Respond("searchWithAI_012", body, Reply(400),
                     c1 \o <<Call("store", FALSE)>>,
                     Context(g.values, parsed.date))
        ELSE
        LET c2 == c1 \o <<Call("store", TRUE)>>
            x == Context(g.values, NoDate)
        IN
        \E results \in HybridResults_012(store, Trim(body.userId.v), sanitizedQuery,
                                         g.values, threshold, searchLimit) :
          IF results = <<>>
          THEN Respond("searchWithAI_012", body, Reply(200), c2, x)
          ELSE IF ~useAI
          THEN Respond("searchWithAI_012", body,
                       ReplyResults(200, results, "none", FALSE), c2, x)
          ELSE IF Trim(ItemById(results[1].id).content) = <<>>
          THEN Respond("searchWithAI_012", body,
                       ReplyResults(200, results, "none", FALSE), c2, x)
          ELSE
          LET xp == [x EXCEPT !.prompt =
                       Prompt(results[1].id, MaxContext_012, sanitizedQuery)]
          IN IF suspended THEN AwaitContent_012(body, results, c2, xp)
             ELSE generateContent_012(body, results, c2, xp)

searchWithAI_012 == searchWithAI_012_handler(FALSE)

searchWithAI_012_await == searchWithAI_012_handler(TRUE)

searchWithAI_012_resume ==
  /\ handler = "searchWithAI_012"
  /\ resp.status = 0
  /\ resp.answer = "awaiting"
  /\ generateContent_012(req, resp.results, calls, ctx)

CharCode(c) ==
  CASE c = " " -> 32 [] c = "%" -> 37 [] c = "A" -> 65 [] c = "B" -> 66
    [] c = "C" -> 67 [] c = "X" -> 88 [] c = "_" -> 95 [] c = "a" -> 97
    [] c = "b" -> 98 [] c = "c" -> 99 [] c = "x" -> 120 [] OTHER -> 0

RECURSIVE TextLess(_, _)
TextLess(s, t) ==
  IF t = <<>> THEN FALSE
  ELSE IF s = <<>> THEN TRUE
  ELSE IF CharCode(Head(s)) # CharCode(Head(t))
  THEN CharCode(Head(s)) < CharCode(Head(t))
  ELSE TextLess(Tail(s), Tail(t))

\* orderBy: [{ createdAt: 'desc' }, { title: 'asc' }]
OrderByCreatedAtDescTitleAsc(rows) ==
  LET titleRank(r) ==
        Cardinality({x \in rows : TextLess(ItemById(x.id).title, ItemById(r.id).title)})
  IN Orderings(rows, [r \in rows |->
                        ItemById(r.id).createdAt * (Cardinality(rows) + 1)
                        - titleRank(r)])

searchByTitle_012 ==
  /\ Idle
  /\ \E r \in Requests, authenticated \in BOOLEAN :
    LET body == IF authenticated THEN r ELSE Unauthenticated(r) IN
    IF ~body.authenticated
    THEN Respond("searchByTitle_012", body, Reply(401), <<>>, NoContext)
    ELSE IF ~validateSearchInput_012(body.query, body.userId)
    THEN Respond("searchByTitle_012", body, Reply(400), <<>>, NoContext)
    ELSE
    LET searchLimit ==
          SearchLimit_012(body.limit, DefaultTitleLimitDyn, MaxTitleLimitDyn)
        sanitizedQuery == sanitizeSearchQuery(body.query.v)
    IN
    \E o \in OrderByCreatedAtDescTitleAsc(
               TitleRows(store, Trim(body.userId.v), sanitizedQuery)) :
      Respond("searchByTitle_012", body,
              ReplyResults(200, Take(o, searchLimit), "none", FALSE),
              <<Call("store", TRUE)>>, NoContext)

-----------------------------------------------------------------------------
(* The write handlers: note, link, document and content controllers *)

\* no request is between two of its statements
NoWrite ==
  [op |-> "none", actor |-> <<>>, userId |-> Undefined, id |-> 0,
   embedding |-> <<>>]

InFlight(op, actor, userId, id, embedding) ==
  [op |-> op, actor |-> actor, userId |-> userId, id |-> id,
   embedding |-> embedding]

\* no write or listing request has been answered yet
NoOp ==
  [op |-> "none", actor |-> <<>>, userId |-> Undefined, status |-> 0,
   removed |-> {}, seen |-> {}]

\* a response: the handler, the status, the rows the request removed and the
\* rows it listed; for a delete also who sent it and the userId of its body
Done(op, actor, userId, status, removed, seen) ==
  [op |-> op, actor |-> actor, userId |-> userId, status |-> status,
   removed |-> removed, seen |-> seen]

Answer(op, status) == Done(op, <<>>, Undefined, status, {}, {})

DeleteAnswer(op, actor, userId, status, removed) ==
  Done(op, actor, userId, status, removed, {})

\* one step of a write handler
Write(done, S, f) ==
  /\ last' = done
  /\ store' = S
  /\ inflight' = f
  /\ UNCHANGED <<handler, req, resp, calls, ctx, cut, run, procs, quotes>>

\* the rows with an embedding; the stores the write handlers start from
Embedded == {it \in Catalogue : it.embedding # <<>>}

InitialStores == {S \in SUBSET Embedded : Cardinality(S) <= MaxInitial}

\* gen_random_uuid(): an id no row has and no request in flight holds
RowIds == 1..(Cardinality(Catalogue) + MaxGrown + 1)

FreshId(S) ==
  CHOOSE n \in RowIds :
    /\ n \notin {it.id : it \in Catalogue \cup S}
    /\ n # inflight.id

\* the store can take one more row (the bound of the model on its growth)
Room == Cardinality(store) < MaxGrown

\* req.params.id: missing, not of the shape of a UUID, or the UUID of row n
IdParams ==
  { [shape |-> "missing", row |-> 0], [shape |-> "malformed", row |-> 0] }
  \cup { [shape |-> "uuid", row |-> n] : n \in RowIds }

\* the userId of a request body or query string
OwnerValues == { Undefined, Str(<<"u">>), Str(<<"v">>) }

\* the userId of the body of a create request
CreatorValues == { Undefined, Str(<<"u">>) }

TitleValues == { Undefined, Str(<<"n">>) }

BodyValues == { Undefined, Str(<<"x">>) }

\* the embedding the provider returns for an item (one vector, or a throw)
ItemProviderOutcomes ==
  { [ok |-> FALSE, values |-> <<>>], [ok |-> TRUE, values |-> <<6, 8>>] }

\* fetchTwitterMetadata / fetchWebsiteMetadata: null, no title, or a title
\* and a content
MetadataOutcomes ==
  { [found |-> FALSE, title |-> <<>>, content |-> <<>>],
    [found |-> TRUE, title |-> <<>>, content |-> <<"x">>],
    [found |-> TRUE, title |-> <<"l">>, content |-> <<"x">>] }

\* createdAt + "\n" + content (the date rendered as one character)
NoteEmbeddingText(content) == <<"d", "\n">> \o content

\* INSERT INTO "Content" (...) VALUES (gen_random_uuid(), ..., NOW(), NOW())
Insert(S, userId, type, title, content, embedding) ==
  S \cup {Row(FreshId(S), userId, type, title, content, Now, embedding)}

\* note.controller.ts createNote
createNote ==
  /\ Room
  /\ \E title \in TitleValues, content \in BodyValues,
        userId \in CreatorValues, embedded \in ItemProviderOutcomes :
    IF Falsy(content) \/ Falsy(title)
    THEN Write(Answer("createNote", 400), store, inflight)
    ELSE
    LET g == generateEmbedding(NoteEmbeddingText(content.v), embedded) IN
    \* a throw of generateEmbedding, and the NOT NULL violation of an INSERT
    \* without userId, reach the catch: 500
    IF ~g.ok \/ userId.t = "undefined"
    THEN Write(Answer("createNote", 500), store, inflight)
    ELSE Write(Answer("createNote", 201),
               Insert(store, userId.v, "NOTE", title.v, content.v, g.values),
               inflight)

\* document.controller.ts uploadDocument (lines 6-50); processDocument
\* extracts the text and calls generateEmbedding on it
uploadDocument ==
  /\ Room
  /\ \E file \in BOOLEAN, userId \in CreatorValues,
        uploaded \in BOOLEAN, embedded \in ItemProviderOutcomes :
    IF ~file \/ Falsy(userId)
    THEN Write(Answer("uploadDocument", 400), store, inflight)
    ELSE
    LET g == generateEmbedding(<<"x">>, embedded) IN
    IF ~uploaded \/ ~g.ok
    THEN Write(Answer("uploadDocument", 500), store, inflight)
    ELSE Write(Answer("uploadDocument", 201),
               Insert(store, userId.v, "DOCUMENT", <<"f">>, <<"x">>, g.values),
               inflight)

\* title: ${metadata.title}\nDate: ${createdAt}\nContent: ${metadata.content}
LinkEmbeddingText(metadata) == <<"t">> \o metadata.title \o <<"\n">> \o metadata.content

\* link.controller.ts createLink
createLink ==
  /\ Room
  /\ \E userId \in CreatorValues, metadata \in MetadataOutcomes,
        embedded \in ItemProviderOutcomes :
    IF ~metadata.found \/ metadata.title = <<>>
    THEN Write(Answer("createLink", 400), store, inflight)
    ELSE
    LET g == generateEmbedding(LinkEmbeddingText(metadata), embedded) IN
    IF ~g.ok \/ userId.t = "undefined"
    THEN Write(Answer("createLink", 500), store, inflight)
    ELSE Write(Answer("createLink", 201),
               Insert(store, userId.v, "LINK", metadata.title, metadata.content,
                      g.values),
               inflight)

\* part_010 createLink, up to and including prisma.content.create: the row
\* is inserted without its embedding
createLink_010 ==
  /\ Room
  /\ inflight = NoWrite
  /\ \E userId \in CreatorValues, metadata \in MetadataOutcomes,
        embedded \in ItemProviderOutcomes :
    IF Falsy(userId)
    THEN Write(Answer("createLink_010", 400), store, inflight)
    ELSE IF ~metadata.found \/ Trim(metadata.title) = <<>>
    THEN Write(Answer("createLink_010", 400), store, inflight)
    ELSE
    LET g == generateEmbedding(LinkEmbeddingText(metadata), embedded) IN
    IF ~g.ok
    THEN Write(Answer("createLink_010", 500), store, inflight)
    ELSE Write(last,
               Insert(store, userId.v, "LINK", metadata.title, metadata.content,
                      <<>>),
               InFlight("createLink_010", <<>>, Undefined, FreshId(store), g.values))

\* UPDATE "Content" SET embedding = ... WHERE id = ...
UpdateEmbedding(S, id, embedding) ==
  { IF it.id = id THEN [it EXCEPT !.embedding = embedding] ELSE it : it \in S }

\* part_010 createLink, from the UPDATE on: a failure of the UPDATE is
\* logged and the request is answered 201 all the same
createLink_010_update ==
  /\ inflight.op = "createLink_010"
  /\ \E updated \in BOOLEAN :
    Write(Answer("createLink_010", 201),
          IF updated THEN UpdateEmbedding(store, inflight.id, inflight.embedding)
          ELSE store,
          NoWrite)

\* prisma.content.delete({ where: { id } }) with the check left to it
RowsWithId(S, id) == {it \in S : id.shape = "uuid" /\ it.id = id.row}

\* note.controller.ts deleteNote
deleteNote ==
  \E actor \in Users, id \in IdParams :
    IF id.shape = "missing"
    THEN Write(DeleteAnswer("deleteNote", actor, Undefined, 400, {}),
               store, inflight)
    ELSE IF RowsWithId(store, id) = {}
    \* Record to delete does not exist: the catch answers 500
    THEN Write(DeleteAnswer("deleteNote", actor, Undefined, 500, {}),
               store, inflight)
    ELSE Write(DeleteAnswer("deleteNote", actor, Undefined, 204,
                            RowsWithId(store, id)),
               store \ RowsWithId(store, id), inflight)

\* part_011 deleteContent up to its findFirst and ownership check
deleteContent_011 ==
  /\ inflight = NoWrite
  /\ \E actor \in Users, authenticated \in BOOLEAN, id \in IdParams,
        userId \in OwnerValues :
    IF ~authenticated
    THEN Write(DeleteAnswer("deleteContent_011", actor, userId, 401, {}),
               store, inflight)
    ELSE IF id.shape # "uuid"
    THEN Write(DeleteAnswer("deleteContent_011", actor, userId, 400, {}),
               store, inflight)
    ELSE IF RowsWithId(store, id) = {}
    THEN Write(DeleteAnswer("deleteContent_011", actor, userId, 404, {}),
               store, inflight)
    ELSE IF ~Falsy(userId)
            /\ \E it \in RowsWithId(store, id) : it.userId # userId.v
    THEN Write(DeleteAnswer("deleteContent_011", actor, userId, 403, {}),
               store, inflight)
    ELSE Write(last, store,
               InFlight("deleteContent_011", actor, userId, id.row, <<>>))

\* part_011 deleteContent from prisma.content.delete on
deleteContent_011_delete ==
  /\ inflight.op = "deleteContent_011"
  /\ LET gone == {it \in store : it.id = inflight.id} IN
     IF gone = {}
     \* Record to delete does not exist: 404
     THEN Write(DeleteAnswer("deleteContent_011", inflight.actor, inflight.userId,
                             404, {}),
                store, NoWrite)
     ELSE Write(DeleteAnswer("deleteContent_011", inflight.actor, inflight.userId,
                             200, gone),
                store \ gone, NoWrite)

\* content.controller.ts getAllContent: the listing of a user's rows
getAllContent ==
  \E authenticated \in BOOLEAN, userId \in OwnerValues :
    IF ~authenticated
    THEN Write(Answer("getAllContent", 401), store, inflight)
    ELSE IF Falsy(userId)
    THEN Write(Answer("getAllContent", 400), store, inflight)
    ELSE Write(Done("getAllContent", <<>>, Undefined, 200, {},
                    {it \in store : it.userId = userId.v}),
               store, inflight)

-----------------------------------------------------------------------------
(* truncateText: embedding.service.ts and part_008 *)

\* The characters of the texts: an ASCII letter, the space, and one
\* character for each of the widths 2, 3 and 4 of UTF-8.  "fffd" is the
\* replacement character a non-fatal TextDecoder puts for a malformed sequence.
CodePoints == {"a", " ", "u2", "u3", "u4"}

\* TextEncoder.encode of one character: lead bytes L2, L3, L4 and
\* continuation bytes C
EncodeChar(c) ==
  CASE c = "u2" -> <<"L2", "C">>
    [] c = "u3" -> <<"L3", "C", "C">>
    [] c = "u4" -> <<"L4", "C", "C", "C">>
    [] c = "fffd" -> <<"L3", "C", "C">>
    [] OTHER -> <<c>>

RECURSIVE Encode(_)
Encode(text) ==
  IF text = <<>> THEN <<>> ELSE EncodeChar(Head(text)) \o Encode(Tail(text))

\* (b & 0xC0) === 0x80
IsContinuation(b) == b = "C"

\* (b & 0xE0) === 0xC0 || (b & 0xF0) === 0xE0 || (b & 0xF8) === 0xF0
IsLead(b) == b \in {"L2", "L3", "L4"}

\* the bytes that follow the lead byte b in a complete sequence
Needed(b) == CASE b = "L2" -> 1 [] b = "L3" -> 2 [] b = "L4" -> 3 [] OTHER -> 0

\* the number of continuation bytes at the head of the bytes, at most n
RECURSIVE Continuations(_, _)
Continuations(bytes, n) ==
  IF n = 0 \/ bytes = <<>> \/ ~IsContinuation(Head(bytes)) THEN 0
  ELSE 1 + Continuations(Tail(bytes), n - 1)

\* new TextDecoder("utf-8").decode(bytes), not fatal: a complete sequence
\* gives its character, a truncated or stray one gives U+FFFD
RECURSIVE Decode(_)
Decode(bytes) ==
  IF bytes = <<>> THEN <<>>
  ELSE LET b == Head(bytes)
           k == Continuations(Tail(bytes), Needed(b))
           rest == SubSeq(bytes, k + 2, Len(bytes))
       IN IF IsLead(b)
          THEN IF k = Needed(b)
               THEN <<CASE b = "L2" -> "u2" [] b = "L3" -> "u3" [] OTHER -> "u4">>
                    \o Decode(rest)
               ELSE <<"fffd">> \o Decode(rest)
          ELSE IF IsContinuation(b) THEN <<"fffd">> \o Decode(Tail(bytes))
          ELSE <<b>> \o Decode(Tail(bytes))

\* while (truncated.length > 0 && (last & 0xC0) === 0x80) truncated.slice(0, -1)
RECURSIVE DropContinuations(_)
DropContinuations(bytes) ==
  IF bytes # <<>> /\ IsContinuation(bytes[Len(bytes)])
  THEN DropContinuations(SubSeq(bytes, 1, Len(bytes) - 1))
  ELSE bytes

\* if the last byte starts a 2, 3 or 4-byte sequence: truncated.slice(0, -1)
DropLead(bytes) ==
  IF bytes # <<>> /\ IsLead(bytes[Len(bytes)])
  THEN SubSeq(bytes, 1, Len(bytes) - 1)
  ELSE bytes

\* embedding.service.ts truncateText(text, maxBytes)
truncateText(text, maxBytes) ==
  LET encoded == Encode(text) IN
  IF Len(encoded) <= maxBytes THEN text
  ELSE Decode(DropLead(DropContinuations(SubSeq(encoded, 1, maxBytes))))

\* truncatedText.replace(/[^\x00-\x7F]*$/, '')
RECURSIVE DropTrailingNonAscii(_)
DropTrailingNonAscii(text) ==
  IF text # <<>> /\ text[Len(text)] \notin {"a", " "}
  THEN DropTrailingNonAscii(SubSeq(text, 1, Len(text) - 1))
  ELSE text

\* the length of a JavaScript string: a character outside the basic plane
\* takes two UTF-16 units
RECURSIVE Units(_)
Units(text) ==
  IF text = <<>> THEN 0
  ELSE (IF Head(text) = "u4" THEN 2 ELSE 1) + Units(Tail(text))

\* the characters before the last space; the text itself when it has none
BeforeLastSpace(text) ==
  IF \E i \in DOMAIN text : text[i] = " "
  THEN SubSeq(text, 1,
              (CHOOSE i \in DOMAIN text :
                 text[i] = " " /\ \A j \in DOMAIN text : text[j] = " " => j <= i) - 1)
  ELSE text

\* part_008 truncateText(text, maxBytes).text
truncateText_008(text, maxBytes) ==
  LET encoded == Encode(text)
      truncatedText ==
        DropTrailingNonAscii(Decode(SubSeq(encoded, 1, maxBytes)))
      hasSpace == \E i \in DOMAIN truncatedText : truncatedText[i] = " "
      lastSpaceIndex == Units(BeforeLastSpace(truncatedText))
  IN IF Len(encoded) <= maxBytes THEN text
     \* lastSpaceIndex > maxBytes * 0.8
     ELSE IF hasSpace /\ 5 * lastSpaceIndex > 4 * maxBytes
     THEN BeforeLastSpace(truncatedText)
     ELSE truncatedText

Texts == UNION { [1..n -> CodePoints] : n \in 0..MaxTextLen }

Budgets == (MaxBudget - 1)..MaxBudget

NoCut == [by |-> "none", text |-> <<>>, maxBytes |-> 0, result |-> <<>>]

Cut(by, text, maxBytes, result) ==
  [by |-> by, text |-> text, maxBytes |-> maxBytes, result |-> result]

\* a call of truncateText of embedding.service.ts
TruncateCall ==
  /\ cut.by = "none"
  /\ cut' = Cut("truncateText", cut.text, cut.maxBytes,
                truncateText(cut.text, cut.maxBytes))
  /\ UNCHANGED <<store, handler, req, resp, calls, ctx, inflight, last, run,
                 procs, quotes>>

\* a call of truncateText of part_008
TruncateCall_008 ==
  /\ cut.by = "none"
  /\ cut' = Cut("truncateText_008", cut.text, cut.maxBytes,
                truncateText_008(cut.text, cut.maxBytes))
  /\ UNCHANGED <<store, handler, req, resp, calls, ctx, inflight, last, run,
                 procs, quotes>>

-----------------------------------------------------------------------------
(* generateEmbedding and withRetry: part_008, embedding.service.ts *)

MAX_RETRIES == 3

\* what model.embedContent does: it returns the values of an embedding,
\* returns a response without values, or throws; message holds the parts
\* of the error message the code looks for
ProviderReplies ==
  { [kind |-> "ok", message |-> <<>>],
    [kind |-> "missing", message |-> <<>>],
    [kind |-> "transient", message |-> <<"fetch", "failed">>],
    [kind |-> "auth", message |-> <<"API key", "not", "valid">>],
    [kind |-> "quota", message |-> <<"check", "quota">>] }

\* message.includes(part)
Includes(message, part) == \E i \in DOMAIN message : message[i] = part

\* every error is retried
NotRetried_Never(message) == FALSE

\* lastError.message.includes('API key') || ... 'authentication' || ...
\* 'quota' || ... 'billing'
NotRetried(message) ==
  \/ Includes(message, "API key")
  \/ Includes(message, "authentication")
  \/ Includes(message, "quota")
  \/ Includes(message, "billing")

\* the last attempt is followed by a wait like the others
OnAttemptError_NoBreak(attempt, maxRetries, message) ==
  IF NotRetried(message) THEN "throw" ELSE "sleep"

\* the catch of withRetry: throw lastError, break out of the loop, or sleep
OnAttemptError(attempt, maxRetries, message) ==
  IF NotRetried(message) THEN "throw"
  ELSE IF attempt = maxRetries THEN "break"
  ELSE "sleep"

\* config.maxRetries (MAX_RETRIES when the caller gives none)
RetryConfigs == 0..MAX_RETRIES

\* the texts given to generateEmbedding: empty, or long enough
EmbeddedTexts == { <<>>, <<"a", "b", "c", "x", "a">> }

Event(what, kind) == [what |-> what, kind |-> kind]

NoRun ==
  [by |-> "none", pc |-> "idle", text |-> <<>>, maxRetries |-> 0,
   attempt |-> 0, log |-> <<>>, result |-> "none"]

Run(by, pc, text, maxRetries, attempt, log, result) ==
  [by |-> by, pc |-> pc, text |-> text, maxRetries |-> maxRetries,
   attempt |-> attempt, log |-> log, result |-> result]

Embed(r) ==
  /\ run' = r
  /\ UNCHANGED <<store, handler, req, resp, calls, ctx, inflight, last, cut,
                 procs, quotes>>

\* embedding.service.ts generateEmbedding: one provider call, no retry
generateEmbedding_call ==
  /\ run.pc = "idle"
  /\ \E reply \in ProviderReplies :
    LET outcome == [ok |-> reply.kind = "ok",
                    values |-> IF reply.kind = "ok" THEN <<6, 8>> ELSE <<>>]
        g == generateEmbedding(run.text, outcome)
        log == IF \E i \in DOMAIN g.calls : g.calls[i].who = "provider"
               THEN <<Event("call", reply.kind)>> ELSE <<>>
    IN Embed(Run("generateEmbedding", "done", run.text, 0, 0, log,
                 IF g.ok THEN "ok" ELSE "error"))

\* text.trim().length < MIN_TEXT_LENGTH
MIN_TEXT_LENGTH == 5

\* part_008 generateEmbedding up to the call of withRetry
generateEmbedding_008 ==
  /\ run.pc = "idle"
  /\ IF run.text = <<>> \/ Len(Trim(run.text)) < MIN_TEXT_LENGTH
     THEN Embed(Run("generateEmbedding_008", "done", run.text, run.maxRetries,
                    0, <<>>, "error"))
     ELSE Embed(Run("generateEmbedding_008", "attempt", run.text,
                    run.maxRetries, 0, <<>>, "none"))

\* part_008 withRetry: one pass of the loop up to the end of its catch
withRetry_attempt ==
  /\ run.pc = "attempt"
  /\ IF run.attempt > run.maxRetries
     \* the loop is left: throw new Error("... failed after n attempts")
     THEN Embed([run EXCEPT !.pc = "done", !.result = "error"])
     ELSE
     \E reply \in ProviderReplies :
       LET log == Append(run.log, Event("call", reply.kind)) IN
       IF reply.kind = "ok"
       THEN Embed([run EXCEPT !.pc = "done", !.log = log, !.result = "ok"])
       ELSE
       LET next == OnAttemptError(run.attempt, run.maxRetries, reply.message) IN
       IF next = "sleep"
       THEN Embed([run EXCEPT !.pc = "sleep", !.log = log])
       ELSE Embed([run EXCEPT !.pc = "done", !.log = log, !.result = "error"])

\* part_008 withRetry: await sleep(delay), then the next pass
withRetry_sleep ==
  /\ run.pc = "sleep"
  /\ Embed([run EXCEPT !.pc = "attempt", !.attempt = run.attempt + 1,
                       !.log = Append(run.log, Event("wait", "backoff"))])

-----------------------------------------------------------------------------
(* Requests that overlap: part_011 createNote and deleteContent *)

\* no request has arrived in any slot.  A slot holds one request: the
\* handler, where it stands, what it keeps in its locals (userId, title,
\* text, id, found) and, once it has answered, its status and the rows it
\* removed.
NoProcs ==
  [p \in 1..MaxProcs |->
     [op |-> "none", pc |-> "idle", userId |-> <<>>, title |-> <<>>,
      text |-> Undefined, id |-> 0, found |-> FALSE, status |-> 0,
      removed |-> {}]]

\* one step of the request or run in slot p
Step(p, r, S, Q) ==
  /\ procs' = [procs EXCEPT ![p] = r]
  /\ store' = S
  /\ quotes' = Q
  /\ UNCHANGED <<handler, req, resp, calls, ctx, inflight, last, cut, run>>

\* part_011 createNote up to the answer of its duplicate check (the titles
\* and contents of the model are far below the 500 and 50,000 characters the
\* handler allows)
createNote_011_check(p) ==
  /\ procs[p].pc = "idle"
  /\ \E authenticated \in BOOLEAN,
        title \in {Undefined, Str(<<"n">>), Str(<<"n", " ">>)},
        content \in BodyValues,
        userId \in {Undefined, Str(<<"u">>), Str(<<"w">>)} :
    LET answer(status) ==
          Step(p, [procs[p] EXCEPT !.op = "createNote_011", !.pc = "done",
                                   !.status = status], store, quotes)
    IN
    IF ~authenticated THEN answer(401)
    ELSE IF Falsy(content) \/ content.t # "string" THEN answer(400)
    ELSE IF Falsy(title) \/ title.t # "string" THEN answer(400)
    ELSE IF Falsy(userId) \/ userId.t # "string" THEN answer(400)
    ELSE IF Trim(title.v) = <<>> \/ Trim(content.v) = <<>> THEN answer(400)
    \* prisma.user.findUnique({ where: { id: userId.trim() } })
    ELSE IF Trim(userId.v) \notin Users THEN answer(400)
    \* prisma.content.findFirst({ where: { title, userId, type: "NOTE" } })
    ELSE IF \E it \in store : /\ it.title = Trim(title.v)
                              /\ it.userId = Trim(userId.v)
                              /\ it.type = "NOTE"
    THEN answer(409)
    ELSE Step(p, [procs[p] EXCEPT !.op = "createNote_011", !.pc = "insert",
                                  !.userId = Trim(userId.v),
                                  !.title = Trim(title.v),
                                  !.text = Str(Trim(content.v))],
              store, quotes)

\* part_011 createNote from generateEmbedding on: the INSERT gives the row
\* an id no row has and no request names
createNote_011_insert(p) ==
  /\ procs[p].pc = "insert"
  /\ \E embedded \in ItemProviderOutcomes :
    LET r == procs[p]
        g == generateEmbedding(<<"t">> \o r.title \o <<"\n", "d", "\n">> \o r.text.v,
                               embedded)
        id == CHOOSE n \in RowIds :
                /\ n \notin {it.id : it \in Catalogue}
                /\ \A q \in DOMAIN procs : procs[q].id # n
    IN
    IF ~g.ok
    THEN Step(p, [r EXCEPT !.pc = "done", !.status = 500], store, quotes)
    ELSE Step(p, [r EXCEPT !.pc = "done", !.status = 201, !.id = id],
              store \cup {Row(id, r.userId, "NOTE", r.title, r.text.v, Now,
                              g.values)},
              quotes)

\* a delete that finds its row gone answered as a server error
DeleteOutcome_011_Unhandled(S, id) ==
  IF {it \in S : it.id = id} = {} THEN [status |-> 500, removed |-> {}]
  ELSE [status |-> 200, removed |-> {it \in S : it.id = id}]

\* prisma.content.delete({ where: { id } }) and the answer: 200, or, when
\* the row is gone ("Record to delete does not exist"), the 404 of the catch
DeleteOutcome_011(S, id) ==
  IF {it \in S : it.id = id} = {} THEN [status |-> 404, removed |-> {}]
  ELSE [status |-> 200, removed |-> {it \in S : it.id = id}]

\* part_011 deleteContent up to its findFirst and ownership check
deleteContent_011_find(p) ==
  /\ procs[p].pc = "idle"
  /\ \E authenticated \in BOOLEAN, id \in IdParams, userId \in OwnerValues :
    LET answer(status, row) ==
          Step(p, [procs[p] EXCEPT !.op = "deleteContent_011", !.pc = "done",
                                   !.id = row, !.status = status],
               store, quotes)
    IN
    IF ~authenticated THEN answer(401, 0)
    ELSE IF id.shape # "uuid" THEN answer(400, 0)
    ELSE IF RowsWithId(store, id) = {} THEN answer(404, id.row)
    ELSE IF ~Falsy(userId)
            /\ \E it \in RowsWithId(store, id) : it.userId # userId.v
    THEN answer(403, id.row)
    ELSE Step(p, [procs[p] EXCEPT !.op = "deleteContent_011", !.pc = "delete",
                                  !.id = id.row, !.found = TRUE],
              store, quotes)

\* part_011 deleteContent from prisma.content.delete on
deleteContent_011_remove(p) ==
  /\ procs[p].pc = "delete"
  /\ LET o == DeleteOutcome_011(store, procs[p].id) IN
     Step(p, [procs[p] EXCEPT !.pc = "done", !.status = o.status,
                              !.removed = o.removed],
          store \ o.removed, quotes)

-----------------------------------------------------------------------------
(* The quote job and the daily-quote endpoint: part_005, app.ts *)

\* fetchAndStoreQuote up to the answer of axios.get: it throws, or it
\* returns a body with or without a quote
fetchAndStoreQuote_get(p) ==
  /\ procs[p].pc = "idle"
  /\ \E fetched \in BOOLEAN, newQuote \in {Undefined, Str(<<"q">>), Str(<<"r">>)} :
    IF ~fetched
    \* catch (error): console.error
    THEN newQuote = Undefined
         /\ Step(p, [procs[p] EXCEPT !.op = "fetchAndStoreQuote", !.pc = "done"],
                 store, quotes)
    ELSE Step(p, [procs[p] EXCEPT !.op = "fetchAndStoreQuote",
                                  !.pc = "deleteMany", !.found = TRUE,
                                  !.text = newQuote],
              store, quotes)

\* await prisma.quote.deleteMany({})
fetchAndStoreQuote_deleteMany(p) ==
  /\ procs[p].pc = "deleteMany"
  /\ Step(p, [procs[p] EXCEPT !.pc = "create", !.removed = quotes], store, {})

\* await prisma.quote.create({ data: { quote: newQuote } }): without a quote
\* the create is refused and the catch logs it
fetchAndStoreQuote_create(p) ==
  /\ procs[p].pc = "create"
  /\ IF procs[p].text = Undefined
     THEN Step(p, [procs[p] EXCEPT !.pc = "done"], store, quotes)
     ELSE Step(p, [procs[p] EXCEPT !.pc = "done", !.id = p], store,
               quotes \cup {[id |-> p, quote |-> procs[p].text.v]})

\* app.get("/daily-quote"): prisma.quote.findFirst(), any row when there
\* are several
dailyQuote ==
  /\ \/ quotes = {} /\ last' = Done("daily-quote", <<>>, Undefined, 403, {}, {})
     \/ \E q \in quotes :
          last' = Done("daily-quote", <<>>, Undefined, 200, {}, {q})
  /\ UNCHANGED <<store, handler, req, resp, calls, ctx, inflight, cut, run,
                 procs, quotes>>

-----------------------------------------------------------------------------

NoRequest == Request(Undefined, Undefined, Undefined, Undefined, Undefined, FALSE)

Init ==
  /\ store \in Stores
  /\ handler = "none"
  /\ req = NoRequest
  /\ resp = Reply(0)
  /\ calls = <<>>
  /\ ctx = NoContext
  /\ procs = NoProcs
  /\ quotes = {}
  /\ inflight = NoWrite
  /\ last = NoOp
  /\ cut = NoCut
  /\ run = NoRun

Next ==
  \/ searchWithAI
  \/ searchByTitle
  \/ searchWithAI_012
  \/ searchByTitle_012

Spec == Init /\ [][Next]_vars

\* searchWithAI with the await of the synthesizer as a step of its own.  The
\* event loop resumes a handler when the promise it awaits settles.
InitAwait ==
  /\ store \in InitialStores
  /\ handler = "none"
  /\ req = NoRequest
  /\ resp = Reply(0)
  /\ calls = <<>>
  /\ ctx = NoContext
  /\ procs = NoProcs
  /\ quotes = {}
  /\ inflight = NoWrite
  /\ last = NoOp
  /\ cut = NoCut
  /\ run = NoRun

NextAwait ==
  \/ searchWithAI_await
  \/ searchWithAI_resume
  \/ searchWithAI_012_await
  \/ searchWithAI_012_resume

SpecAwait ==
  /\ InitAwait
  /\ [][NextAwait]_vars
  /\ WF_vars(searchWithAI_resume)
  /\ WF_vars(searchWithAI_012_resume)

\* createNote and deleteContent of part_011, MaxProcs requests at a time
InitRace ==
  /\ store \in InitialStores
  /\ handler = "none"
  /\ req = NoRequest
  /\ resp = Reply(0)
  /\ calls = <<>>
  /\ ctx = NoContext
  /\ inflight = NoWrite
  /\ last = NoOp
  /\ cut = NoCut
  /\ run = NoRun
  /\ procs = NoProcs
  /\ quotes = {}

NextRace ==
  \/ \E p \in DOMAIN procs : createNote_011_check(p)
  \/ \E p \in DOMAIN procs : createNote_011_insert(p)
  \/ \E p \in DOMAIN procs : deleteContent_011_find(p)
  \/ \E p \in DOMAIN procs : deleteContent_011_remove(p)

SpecRace == InitRace /\ [][NextRace]_vars

\* the quote job, run at startup and by the cron, and the daily-quote
\* endpoint; the table starts empty or with the quote of an earlier day
InitQuote ==
  /\ store = {}
  /\ handler = "none"
  /\ req = NoRequest
  /\ resp = Reply(0)
  /\ calls = <<>>
  /\ ctx = NoContext
  /\ inflight = NoWrite
  /\ last = NoOp
  /\ cut = NoCut
  /\ run = NoRun
  /\ procs = NoProcs
  /\ quotes \in {{}, {[id |-> 0, quote |-> <<"p">>]}}

NextQuote ==
  \/ \E p \in DOMAIN procs : fetchAndStoreQuote_get(p)
  \/ \E p \in DOMAIN procs : fetchAndStoreQuote_deleteMany(p)
  \/ \E p \in DOMAIN procs : fetchAndStoreQuote_create(p)
  \/ dailyQuote

SpecQuote == InitQuote /\ [][NextQuote]_vars

\* the write handlers and the listing, running against one store
InitStore ==
  /\ store \in InitialStores
  /\ handler = "none"
  /\ req = NoRequest
  /\ resp = Reply(0)
  /\ calls = <<>>
  /\ ctx = NoContext
  /\ procs = NoProcs
  /\ quotes = {}
  /\ inflight = NoWrite
  /\ last = NoOp
  /\ cut = NoCut
  /\ run = NoRun

NextStore ==
  \/ createNote
  \/ uploadDocument
  \/ createLink
  \/ createLink_010
  \/ createLink_010_update
  \/ deleteNote
  \/ deleteContent_011
  \/ deleteContent_011_delete
  \/ getAllContent

SpecStore == InitStore /\ [][NextStore]_vars

\* truncateText applied to every text and budget of the bounds
InitTruncate ==
  /\ store = {}
  /\ handler = "none"
  /\ req = NoRequest
  /\ resp = Reply(0)
  /\ calls = <<>>
  /\ ctx = NoContext
  /\ procs = NoProcs
  /\ quotes = {}
  /\ inflight = NoWrite
  /\ last = NoOp
  /\ \E text \in Texts, maxBytes \in Budgets : cut = Cut("none", text, maxBytes, <<>>)
  /\ run = NoRun

NextTruncate ==
  \/ TruncateCall
  \/ TruncateCall_008

SpecTruncate == InitTruncate /\ [][NextTruncate]_vars

\* one call of generateEmbedding, of either revision
InitRetry ==
  /\ store = {}
  /\ handler = "none"
  /\ req = NoRequest
  /\ resp = Reply(0)
  /\ calls = <<>>
  /\ ctx = NoContext
  /\ procs = NoProcs
  /\ quotes = {}
  /\ inflight = NoWrite
  /\ last = NoOp
  /\ cut = NoCut
  /\ \E text \in EmbeddedTexts, maxRetries \in RetryConfigs :
       run = Run("none", "idle", text, maxRetries, 0, <<>>, "none")

NextRetry ==
  \/ generateEmbedding_call
  \/ generateEmbedding_008
  \/ withRetry_attempt
  \/ withRetry_sleep

\* a provider call that was made returns or throws, and a timer that was
\* set fires: the call of generateEmbedding goes on while it has a next step
SpecRetry == InitRetry /\ [][NextRetry]_vars /\ WF_vars(NextRetry)

-----------------------------------------------------------------------------
(* What the claims speak about *)

Served == handler # "none"

ByHybrid == handler \in {"searchWithAI", "searchWithAI_012"}

Called(who) == \E i \in DOMAIN calls : calls[i].who = who

Failed(who) == \E i \in DOMAIN calls : calls[i] = Call(who, FALSE)

Succeeded(who) == \E i \in DOMAIN calls : calls[i] = Call(who, TRUE)

ReturnedIds == {resp.results[i].id : i \in DOMAIN resp.results}

\* the threshold the caller asked for (0.3 when none was given)
RequestedThreshold ==
  IF req.similarityThreshold.t = "undefined" THEN DefaultThreshold
  ELSE req.similarityThreshold.v

\* the limit and the threshold the handler that served the request applies
AppliedLimit ==
  IF handler = "searchWithAI" THEN HybridLimit
  ELSE SearchLimit_012(req.limit, DefaultLimitDyn, MaxLimitDyn)

\* the rows that qualified for the request served, at threshold t (thousandths)
QualifyingAt(t) ==
  IF handler = "searchWithAI"
  THEN HybridRows(store, Trim(req.userId.v), Trim(req.query.v),
                  ctx.queryEmbedding, ctx.parsedDate, t)
  ELSE HybridRows_012(store, Trim(req.userId.v), sanitizeSearchQuery(req.query.v),
                      ctx.queryEmbedding, Threshold_012(Num(t)))

Qualifying ==
  IF handler = "searchWithAI" THEN QualifyingAt(RequestedThreshold)
  ELSE HybridRows_012(store, Trim(req.userId.v), sanitizeSearchQuery(req.query.v),
                      ctx.queryEmbedding, Threshold_012(req.similarityThreshold))

-----------------------------------------------------------------------------
(* C1 *)

\* C1: ownership isolation.  Every item a search returns (searchWithAI and
\* searchByTitle, both revisions) is owned by the user the request names; no
\* item of another owner is in the results.
C1_OwnershipIsolation ==
  Served =>
    \A i \in DOMAIN resp.results :
      ItemById(resp.results[i].id).userId = req.userId.v

\* a hybrid search by u returned items while the store held an item of v
\* whose title matches the query
C1_Witness ==
  /\ handler = "searchWithAI"
  /\ resp.results # <<>>
  /\ req.userId.v = <<"u">>
  /\ \E it \in store : it.userId = <<"v">> /\ TitleILike(it.title, req.query.v)

-----------------------------------------------------------------------------
(* C8 *)

\* C8: a request whose query or user id is missing, not a string, empty or
\* white space only is answered 4xx by both search endpoints, and no
\* collaborator (embedding provider, temporal parser, content store, answer
\* synthesizer) is invoked for it.
C8_ValidationBeforeAnyCall ==
  (Served /\ (~IsText(req.query) \/ ~IsText(req.userId))) =>
    /\ resp.status \in 400..499
    /\ resp.results = <<>>
    /\ calls = <<>>

\* searchWithAI rejected a white-space-only query sent with a good user id
C8_Witness ==
  /\ handler = "searchWithAI"
  /\ req.query.t = "string"
  /\ req.query.v = <<" ">>
  /\ IsText(req.userId)
  /\ resp.status = 400

-----------------------------------------------------------------------------
(* C9 *)

\* C9: when generateEmbedding fails for the query, searchWithAI ends with a
\* failure response (5xx, no results), and neither the content store nor the
\* answer synthesizer is invoked.
C9_EmbeddingFailureIsFatal ==
  (ByHybrid /\ Failed("generateEmbedding")) =>
    /\ resp.status \in 500..599
    /\ resp.results = <<>>
    /\ ~Called("store")
    /\ ~Called("synthesizer")

\* the provider threw for a well-formed request and the handler answered 500
C9_Witness ==
  /\ handler = "searchWithAI"
  /\ Failed("provider")
  /\ resp.status = 500

-----------------------------------------------------------------------------
(* C2 *)

\* the three paths of the inclusion rule, as the specification words them
SimilarityPath(it) ==
  /\ it.embedding # <<>>
  /\ 6 * (100 - CosineDistance(it.embedding, ctx.queryEmbedding))
       > RequestedThreshold

TitlePath(it) == ContainsCI(it.title, Trim(req.query.v))

DatePath(it) ==
  ctx.parsedDate # NoDate /\ DateOf(it.createdAt) = DateOf(ctx.parsedDate)

\* C2: the inclusion rule of searchWithAI is the union of exactly three
\* paths.  An item of the requester qualifies if and only if
\* 0.6 * similarityScore > similarityThreshold, or its title contains the
\* query without regard to case, or a date was parsed and is the calendar
\* date of createdAt.  (Every returned item took one of the paths; when the
\* list is shorter than the limit, every item on a path is in it.)
C2_UnionOfThreePaths ==
  (ByHybrid /\ Succeeded("store")) =>
    /\ \A id \in ReturnedIds :
         SimilarityPath(ItemById(id)) \/ TitlePath(ItemById(id))
           \/ DatePath(ItemById(id))
    /\ Len(resp.results) < AppliedLimit =>
         \A it \in store :
           (/\ it.userId = Trim(req.userId.v)
            /\ SimilarityPath(it) \/ TitlePath(it) \/ DatePath(it))
             => it.id \in ReturnedIds

-----------------------------------------------------------------------------
(* C3 *)

\* C3: for every item searchWithAI returns, the reported total score is
\* 0.6 * similarityScore + 0.3 * titleScore + 0.1 * dateScore, with
\* similarityScore = 1 - cosineDistance(embedding, queryEmbedding), titleScore
\* 1 exactly when the query is a case-insensitive substring of the title and
\* dateScore 1 exactly when a date was parsed and is the calendar date of
\* createdAt; the total is the sum of the three reported components.
C3_TotalIsWeightedSum ==
  ByHybrid =>
    \A i \in DOMAIN resp.results :
      LET row == resp.results[i]
          it == ItemById(row.id)
      IN /\ it.embedding # <<>>
         /\ row.total_score =
              6 * (100 - CosineDistance(it.embedding, ctx.queryEmbedding))
              + 300 * (IF TitlePath(it) THEN 1 ELSE 0)
              + 100 * (IF DatePath(it) THEN 1 ELSE 0)
         /\ row.total_score =
              row.weighted_similarity + row.weighted_title + row.weighted_date

-----------------------------------------------------------------------------
(* C4 *)

\* C4: the results of searchWithAI are ranked by total score, descending:
\* for returned positions i < j, totalScore[i] >= totalScore[j], and no
\* qualifying item dropped by the truncation has a total score above that of
\* a returned item.
C4_RankedByTotalDescending ==
  ByHybrid =>
    /\ \A i, j \in DOMAIN resp.results :
         i < j =>
           /\ resp.results[i].total_score # NULL
           /\ resp.results[j].total_score # NULL
           /\ resp.results[i].total_score >= resp.results[j].total_score
    /\ resp.results # <<>> =>
         \A d \in Qualifying :
           d.id \notin ReturnedIds =>
             \A i \in DOMAIN resp.results :
               /\ resp.results[i].total_score # NULL
               /\ d.total_score # NULL
               /\ d.total_score <= resp.results[i].total_score

-----------------------------------------------------------------------------
(* C5 *)

\* C5: deterministic tie-break.  Two returned items with the same total
\* score come in a fixed order, the one with the newer createdAt first.
C5_NewestFirstOnTies ==
  ByHybrid =>
    \A i, j \in DOMAIN resp.results :
      (i < j /\ resp.results[i].total_score = resp.results[j].total_score) =>
        ItemById(resp.results[i].id).createdAt
          >= ItemById(resp.results[j].id).createdAt

-----------------------------------------------------------------------------
(* C6 *)

\* the limit the claim expects: the requested one when it is in 1..20, 20
\* when it is above, and a default of at most 5 when none is given
ClaimedLimit ==
  IF req.limit.t = "undefined" THEN 5
  ELSE IF req.limit.v > 20 THEN 20
  ELSE req.limit.v

AmendedLimit ==
  IF handler = "searchWithAI" THEN 3
  ELSE IF req.limit.t = "undefined" \/ req.limit.v = 0 THEN 5
  ELSE IF req.limit.v > 20 THEN 20
  ELSE IF req.limit.v < 1 THEN 1
  ELSE req.limit.v

-----------------------------------------------------------------------------
(* C7 *)

\* C7: score monotonicity.  With query, owner, parsed date and store fixed,
\* raising similarityThreshold within [0,1] never increases the number of
\* results: every lower threshold t1 yields at least as many results as the
\* threshold the request was served with.
C7_ThresholdMonotone ==
  (ByHybrid /\ Succeeded("store") /\ req.similarityThreshold.t = "number") =>
    \A t1 \in {t \in ThresholdValues : t.t = "number"} :
      t1.v <= req.similarityThreshold.v =>
        Min(AppliedLimit, Cardinality(QualifyingAt(t1.v))) >= Len(resp.results)

-----------------------------------------------------------------------------
(* C10 *)

\* C10: when the temporal parser throws, searchWithAI catches the failure
\* and proceeds without a date signal: no parsed date, dateScore 0 for every
\* item, the store is queried, and the request does not end in a failure
\* response.
C10_ParserFailureTolerated ==
  (ByHybrid /\ Failed("parser")) =>
    /\ resp.status \notin 500..599
    /\ ctx.parsedDate = NoDate
    /\ Called("store")
    /\ \A i \in DOMAIN resp.results : resp.results[i].weighted_date = 0

-----------------------------------------------------------------------------
(* C11 *)

\* the lists the request served may carry: the qualifying rows in an order
\* ORDER BY total_score DESC may produce, cut to the limit applied
RankedResults ==
  { Take(o, AppliedLimit) : o \in OrderByTotalScoreDesc(Qualifying) }

\* C11: graceful AI degradation.  When the answer synthesizer throws (useAI
\* true, at least one item qualifies) searchWithAI answers 200 with the
\* ranked results and a warning, never 5xx.
C11_SynthesizerFailureDegrades ==
  (ByHybrid /\ Failed("synthesizer")) =>
    /\ resp.status = 200
    /\ resp.results # <<>>
    /\ resp.results \in RankedResults
    /\ resp.warning

\* part_012 answered with two ranked items after the synthesizer threw
C11_Witness ==
  /\ handler = "searchWithAI_012"
  /\ Failed("synthesizer")
  /\ Len(resp.results) >= 2
  /\ resp.warning

-----------------------------------------------------------------------------
(* C12 *)

\* C12: when the answer synthesizer returns a response without candidate
\* text, searchWithAI answers 200 with the ranked results and an indication
\* that no answer is available (a fixed answer text or a warning), not an
\* answer of the synthesizer and not a failure.
C12_EmptyAnswerDegrades ==
  (ByHybrid /\ Failed("candidateText")) =>
    /\ resp.status = 200
    /\ resp.results # <<>>
    /\ resp.results \in RankedResults
    /\ resp.answer # "ai"
    /\ resp.answer = "fixed" \/ resp.warning

\* search.controller.ts answered with its fixed text after an empty response
C12_Witness ==
  /\ handler = "searchWithAI"
  /\ Succeeded("synthesizer")
  /\ Failed("candidateText")
  /\ resp.answer = "fixed"
  /\ resp.results # <<>>

-----------------------------------------------------------------------------
(* C13 *)

\* C13: when useAI is false searchWithAI never invokes the answer
\* synthesizer, its response has no answer field, and when items qualify it
\* is a 200 carrying the ranked results.
C13_NoSynthesisWithoutUseAI ==
  (ByHybrid /\ req.useAI = Bool(FALSE)) =>
    /\ ~Called("synthesizer")
    /\ resp.answer = "none"
    /\ ~resp.warning
    /\ (Succeeded("store") /\ Qualifying # {}) =>
         /\ resp.status = 200
         /\ resp.results # <<>>
         /\ resp.results \in RankedResults

\* search.controller.ts returned an item with content, useAI being false
C13_Witness ==
  /\ handler = "searchWithAI"
  /\ req.useAI = Bool(FALSE)
  /\ resp.results # <<>>
  /\ Trim(ItemById(resp.results[1].id).content) # <<>>

-----------------------------------------------------------------------------
(* C14 *)

\* C14: when no item qualifies, searchWithAI and searchByTitle both answer
\* with a success carrying an empty result list, not an error or not-found
\* status.
C14_EmptyResultIsSuccess ==
  (Served /\ Succeeded("store") /\ resp.results = <<>>) =>
    resp.status = 200

-----------------------------------------------------------------------------
(* C17 *)

\* C17: only items with a non-null embedding are candidates of searchWithAI:
\* no returned item has a NULL embedding or a NULL score.
C17_NullEmbeddingExcluded ==
  ByHybrid =>
    \A i \in DOMAIN resp.results :
      /\ ItemById(resp.results[i].id).embedding # <<>>
      /\ resp.results[i].weighted_similarity # NULL
      /\ resp.results[i].total_score # NULL

-----------------------------------------------------------------------------
(* C15 *)

\* the last response answers a delete sent by its actor in the actor's own
\* name (the body names the actor as owner, or names no owner)
DeleteOnOwnBehalf ==
  /\ last.op \in {"deleteNote", "deleteContent_011"}
  /\ last.userId = Undefined \/ last.userId = Str(last.actor)

\* C15: delete is scoped to ownership.  No delete request sent by or on
\* behalf of an owner A, one that names no owner included, removes an item of
\* another owner.
C15_DeleteScopedToOwner ==
  DeleteOnOwnBehalf => \A it \in last.removed : it.userId = last.actor

-----------------------------------------------------------------------------
(* C16 *)

\* C16: item creation is atomic with its embedding.  Every item in the
\* store, and every item a concurrent listing sees, carries its embedding; no
\* item stays persisted when generating or storing its embedding failed.
C16_CreatedWithEmbedding ==
  /\ \A it \in store : it.embedding # <<>>
  /\ \A it \in last.seen : it.embedding # <<>>

-----------------------------------------------------------------------------
(* C18 *)

\* the widest encoding of one character, in bytes
MaxCodePointWidth == 4

IsPrefix(s, t) == Len(s) <= Len(t) /\ s = SubSeq(t, 1, Len(s))

\* C18: truncation safety.  For every text whose UTF-8 encoding is longer
\* than the byte budget, truncateText returns a prefix of the text that ends
\* on a complete character (no replacement character, nothing split) and
\* whose encoding is not shorter than budget - 4 bytes.
C18_TruncationSafety ==
  (cut.by # "none" /\ Len(Encode(cut.text)) > cut.maxBytes) =>
    /\ IsPrefix(cut.result, cut.text)
    /\ Len(Encode(cut.result)) <= cut.maxBytes
    /\ Len(Encode(cut.result)) >= cut.maxBytes - MaxCodePointWidth

-----------------------------------------------------------------------------
(* C19 *)

ProviderCalls == {i \in DOMAIN run.log : run.log[i].what = "call"}

Waits == {i \in DOMAIN run.log : run.log[i].what = "wait"}

\* the retries of the call of generateEmbedding are bounded
C19_Bounded ==
  \* at most maxRetries + 1 provider calls
  /\ Cardinality(ProviderCalls) <= run.maxRetries + 1
  \* a wait precedes each retry, and waits stand only before retries
  /\ \A i \in ProviderCalls : i > 1 => (i - 1) \in Waits
  /\ \A i \in Waits : i > 1 /\ (i - 1) \in ProviderCalls
  /\ run.pc = "done" => (run.log = <<>> \/ Len(run.log) \in ProviderCalls)
  \* the first success is returned and nothing follows it
  /\ \A i \in ProviderCalls :
       run.log[i].kind = "ok" =>
         i = Len(run.log) /\ run.pc = "done" /\ run.result = "ok"
  \* after the last failed attempt a failure surfaces
  /\ (/\ Cardinality(ProviderCalls) = run.maxRetries + 1
      /\ run.log[Len(run.log)].kind # "ok") =>
       run.pc = "done" /\ run.result = "error"

\* C19: embedding retries are bounded.  One call of generateEmbedding invokes
\* the provider at most maxRetries + 1 times (4 by default), waits before each
\* retry, returns the first success without a further attempt, surfaces a
\* failure after the last failed attempt, and always terminates.
C19_RetriesBoundedAndTerminate ==
  /\ []C19_Bounded
  /\ <>(run.pc = "done")

\* part_008, default configuration: four provider calls failed with a
\* transient error, three waits between them, and the failure surfaced
C19_Witness ==
  /\ run.by = "generateEmbedding_008"
  /\ run.maxRetries = MAX_RETRIES
  /\ Cardinality(ProviderCalls) = MAX_RETRIES + 1
  /\ Cardinality(Waits) = MAX_RETRIES
  /\ \A i \in ProviderCalls : run.log[i].kind = "transient"
  /\ run.pc = "done"
  /\ run.result = "error"

-----------------------------------------------------------------------------
(* C20 *)

\* C20: a provider call of generateEmbedding that fails with an
\* authentication or quota error is not retried: no provider call and no wait
\* follows it, and the error surfaces to the caller.
C20_AuthAndQuotaNotRetried ==
  \A i \in ProviderCalls :
    run.log[i].kind \in {"auth", "quota"} =>
      /\ i = Len(run.log)
      /\ run.pc = "done"
      /\ run.result = "error"

\* part_008: the second attempt, made after a transient error and a wait,
\* failed with a quota error and the call ended there
C20_Witness ==
  /\ run.by = "generateEmbedding_008"
  /\ Len(run.log) = 3
  /\ run.log[1].kind = "transient"
  /\ run.log[3].kind = "quota"
  /\ run.attempt < run.maxRetries
  /\ run.pc = "done"
  /\ run.result = "error"

-----------------------------------------------------------------------------
(* C21 *)

\* C21: a slow Answer Synthesizer never blocks the results.  Every
\* searchWithAI request (useAI true, at least one ranked result) that reached
\* the call of the synthesizer is eventually answered, also when the call
\* never returns.
C21_SlowSynthesizerNeverBlocks ==
  (ByHybrid /\ resp.status = 0) ~> (resp.status # 0)

-----------------------------------------------------------------------------
(* C22 *)

\* C22: search is a pure query.  No step of searchWithAI or searchByTitle
\* (either revision), whatever its outcome, creates, modifies or deletes a
\* row of the Content Store.
C22_SearchIsPureQuery == [][store' = store]_vars

\* a search over a store with rows was answered with results and an answer
\* of the synthesizer
C22_Witness ==
  /\ Served
  /\ store # {}
  /\ resp.status = 200
  /\ resp.results # <<>>
  /\ resp.answer = "ai"

-----------------------------------------------------------------------------
(* C23 *)

\* C23: title-only search (both revisions) returns exactly the items of the
\* owner whose title contains the query as given, without regard to case,
\* newest createdAt first and capped at 5: the list holds min(5, number of
\* matching items) items, all of them matching, in descending createdAt, and
\* no matching item left out is newer than a returned one.
C23_TitleSearchExact ==
  (handler \in {"searchByTitle", "searchByTitle_012"} /\ Succeeded("store")) =>
    LET matching == {it \in store : /\ it.userId = Trim(req.userId.v)
                                    /\ ContainsCI(it.title, req.query.v)}
        at(i) == ItemById(resp.results[i].id).createdAt
    IN /\ \A id \in ReturnedIds : ItemById(id) \in matching
       /\ Len(resp.results) = Min(TitleTake, Cardinality(matching))
       /\ \A i, j \in DOMAIN resp.results : i < j => at(i) >= at(j)
       /\ \A it \in matching :
            it.id \notin ReturnedIds =>
              \A i \in DOMAIN resp.results : it.createdAt <= at(i)

-----------------------------------------------------------------------------
(* C24 *)

\* the threshold the handler that served the request ranks with
AppliedThreshold ==
  IF handler = "searchWithAI" THEN validateSearchInput(req).similarityThreshold
  ELSE Threshold_012(req.similarityThreshold)

\* C24: the similarity threshold used for ranking is a value in [0,1].
\* searchWithAI ranks with the caller's similarityThreshold unchanged for
\* every value in [0,1] (0 and values below 0.1 included), with 0.3 when none
\* is given, and never with a threshold outside [0,1].
C24_ThresholdAppliedAsGiven ==
  (ByHybrid /\ Called("store")) =>
    /\ AppliedThreshold \in 0..1000
    /\ RequestedThreshold \in 0..1000 => AppliedThreshold = RequestedThreshold

-----------------------------------------------------------------------------
(* C25 *)

\* C25: every score field reported for every item searchWithAI returns (the
\* similarity, title and date components and the total) lies in [0,1], also
\* for an embedding whose cosine distance to the query exceeds 1.  (An item
\* without an embedding has no similarity to report: C17.)
C25_ScoresInUnitInterval ==
  ByHybrid =>
    \A i \in DOMAIN resp.results :
      LET r == resp.results[i] IN
      /\ r.weighted_title \in 0..1000
      /\ r.weighted_date \in 0..1000
      /\ r.weighted_similarity # NULL =>
           /\ r.weighted_similarity \in 0..1000
           /\ r.total_score \in 0..1000

-----------------------------------------------------------------------------
(* C26 *)

\* C26: when useAI is true and an item qualifies, searchWithAI calls the
\* Answer Synthesizer at most once per request, with a context that is the
\* body of the first result cut to at most 8000 characters and with the
\* original query as the question; no body of a lower-ranked result is
\* passed.
C26_SynthesizerGetsTopResultAndQuery ==
  (ByHybrid /\ Called("synthesizer")) =>
    /\ Cardinality({i \in DOMAIN calls : calls[i].who = "synthesizer"}) = 1
    /\ ctx.prompt.row = resp.results[1].id
    /\ Len(ctx.prompt.context) <= MaxContext
    /\ IsPrefix(ctx.prompt.context, ItemById(resp.results[1].id).content)
    /\ ctx.prompt.question = Trim(req.query.v)

-----------------------------------------------------------------------------
(* C27 *)

\* C27: for an accepted similarityThreshold of 0.6 or more no item qualifies
\* through the vector-similarity path alone (0.6 * similarityScore is at
\* most 0.6): every item searchWithAI returns then has titleScore 1 or
\* dateScore 1.
C27_HighThresholdNeedsTitleOrDate ==
  (ByHybrid /\ Called("store") /\ RequestedThreshold >= 600) =>
    \A i \in DOMAIN resp.results :
      \/ resp.results[i].weighted_title = 300
      \/ resp.results[i].weighted_date = 100

-----------------------------------------------------------------------------
(* C28 *)

\* C28: after any interleaving of concurrent createNote requests no owner
\* has two NOTE items with the same trimmed title; a createNote whose title
\* exists for the owner is answered 409 and inserts nothing, also when two
\* such requests for a new title run at the same time.
C28_NoDuplicateNoteTitles ==
  /\ \A a, b \in store :
       (/\ a.type = "NOTE" /\ b.type = "NOTE"
        /\ a.userId = b.userId
        /\ Trim(a.title) = Trim(b.title)) => a = b
  /\ \A p \in DOMAIN procs :
       (procs[p].op = "createNote_011" /\ procs[p].status = 409) =>
         procs[p].id = 0

-----------------------------------------------------------------------------
(* C29 *)

\* the deleteContent requests for row id that passed authentication and
\* validation and were not refused for ownership
Deleters(id) ==
  {p \in DOMAIN procs : /\ procs[p].op = "deleteContent_011"
                        /\ procs[p].id = id
                        /\ procs[p].status \notin {400, 401, 403}}

\* C29: for concurrent authenticated deleteContent requests for the same
\* existing item, under every interleaving of their existence checks and
\* their deletes, the item is removed exactly once: one request answers 200
\* and removes that item only, every other answers 404, none answers with a
\* 5xx status, and no other item is removed.
C29_ConcurrentDeletesRemoveOnce ==
  \A id \in RowIds :
    LET answered == {p \in Deleters(id) : procs[p].pc = "done"}
        deleted == {p \in answered : procs[p].status = 200}
    IN /\ \A p \in answered : procs[p].status \in {200, 404}
       /\ Cardinality(deleted) <= 1
       /\ \A p \in answered :
            /\ \A it \in procs[p].removed : it.id = id
            /\ procs[p].removed # {} <=> p \in deleted
       /\ (/\ answered = Deleters(id)
           /\ \E p \in answered : procs[p].found) =>
            /\ Cardinality(deleted) = 1
            /\ \A it \in store : it.id # id

\* two requests for the same row both found it before either deleted it;
\* one answered 200 and the other 404
C29_Witness ==
  \E p, q \in DOMAIN procs :
    /\ p # q
    /\ procs[p].op = "deleteContent_011" /\ procs[q].op = "deleteContent_011"
    /\ procs[p].id = procs[q].id
    /\ procs[p].found /\ procs[q].found
    /\ procs[p].pc = "done" /\ procs[q].pc = "done"
    /\ procs[p].status = 200 /\ procs[q].status = 404
    /\ procs[p].removed # {}

-----------------------------------------------------------------------------
(* C30 *)

\* C30: in every reachable state the quote store holds at most one quote,
\* also when the startup run of fetchAndStoreQuote overlaps a run of the
\* cron; a run whose fetch from the quote API failed has left the stored
\* quote as it was.
C30_AtMostOneQuote ==
  /\ Cardinality(quotes) <= 1
  /\ \A p \in DOMAIN procs :
       (/\ procs[p].op = "fetchAndStoreQuote"
        /\ procs[p].pc = "done"
        /\ ~procs[p].found) => (procs[p].removed = {} /\ procs[p].id = 0)

====
